---- MODULE Spec2Model ----
(***************************************************************************)
(* Model of the conversation orchestrator of greek-room-api:               *)
(* src/src/chat.py (ChatClient, call_tool, generate_available_tools).      *)
(*                                                                         *)
(* One ChatClient is driven by one caller.  An operation that contains a   *)
(* suspension point (an await on the tool service) is modelled as a        *)
(* sequence of steps, one per stretch of code between two awaits; an       *)
(* operation without one is a single action.  The LLM backend and the      *)
(* tool service are the environment: every call to them either returns    *)
(* one of a small set of replies or fails.                                 *)
(*                                                                         *)
(* BotSpec models src/src/whatsapp_bot.py: the webhook tasks of the        *)
(* FastAPI application run process_message concurrently on one event loop  *)
(* and share the module's single ChatClient; a task gives up the loop only *)
(* at an await that reaches the network.  UserSpec is the same bot with     *)
(* one sender whose requests arrive one after the other.  CopySpec adds a  *)
(* caller that changes the history lists it was handed, FlightSpec runs    *)
(* concurrent initiate_chat calls on a client without a catalog.           *)
(* AuthSpec follows the token of the client into the requests to the tool  *)
(* service, ServerSpec is the tool service of src/src/app_mcp.py answering *)
(* requests.  RenderSpec, FormatSpec and ReplySpec apply one function on   *)
(* its own to every input of a bounded set: the rendering of a tool        *)
(* listing, the chunking of a text, the sending of a list of responses by  *)
(* the webhook.                                                            *)
(***************************************************************************)
EXTENDS Integers, Sequences, FiniteSets, TLC

(***************************************************************************)
(* Bounds of the model.                                                    *)
(***************************************************************************)
\* number of public operations the caller starts in one behaviour
MaxOps == 3
\* number of completion requests sent to the LLM backend in one behaviour
MaxCompletions == 2
\* chat() is called with max_turns in 0..MaxTurnsArg
MaxTurnsArg == 1
\* max_turns of the single chat() run of RoundsSpec is in 0..MaxRounds
MaxRounds == 2
\* number of webhook requests the bot receives in one behaviour
MaxRequests == 2
\* messages of the one user of the sequential bot
MaxUserRequests == 3
\* tasks that call initiate_chat concurrently on one client
MaxCallers == 2
\* requests the tool service answers in one behaviour
MaxServed == 3
\* tools in a listing that is rendered
MaxListed == 2
\* characters of a text that is chunked, and the largest max_length
MaxText == 5
MaxLength == 3
\* responses of one webhook reply
MaxChunks == 3

(***************************************************************************)
(* Values.                                                                 *)
(***************************************************************************)
\* Python None, for available_tools, auth_token and user_query
None == "None"
\* a tool call that carries no 'id' key
NoId == "NoId"
NoName == "NoName"

\* the tool service's listing, as tool names (chat.py:63, 96)
RemoteCatalog == <<"echo">>

\* self.available_tools: None (chat.py:195) or the list built by
\* generate_available_tools (chat.py:229)
NoTools == [is_none |-> TRUE, tools |-> <<>>]
Loaded(tools) == [is_none |-> FALSE, tools |-> tools]

\* tokens handed to set_auth_token
Tokens == {"t1"}
\* tokens where authentication is looked at: the empty string, two tokens
AuthTokens == {"", "t1", "t2"}

\* the latest step sent no request to the tool service; a request without
\* authentication
NoCall == "NoCall"
NoAuth == "NoAuth"

\* user_query arguments: None, the empty string, a non-empty text
UserQueries == {None, "", "use echo"}

\* bool(user_query) of Python: None and "" are falsy (chat.py:280)
Truthy(q) == q # None /\ q # ""

\* function.arguments blobs the LLM sends: two JSON objects, one malformed
ArgBlobs == {"{}", "{\"text\": \"a\"}", "{\"text\": "}

\* json.loads (chat.py:342): the decoded value, or a JSONDecodeError
JsonLoads(blob) ==
    CASE blob = "{}" -> [ok |-> TRUE, value |-> "dict()"]
      [] blob = "{\"text\": \"a\"}" -> [ok |-> TRUE, value |-> "dict(text=a)"]
      [] OTHER -> [ok |-> FALSE, value |-> "JSONDecodeError"]

(***************************************************************************)
(* Messages (dicts of the conversation history).                           *)
(***************************************************************************)
ToolCall(id, name, arguments) ==
    [id |-> id, name |-> name, arguments |-> arguments]

Message(role, content, tool_calls, tool_call_id, name) ==
    [role |-> role, content |-> content, tool_calls |-> tool_calls,
     tool_call_id |-> tool_call_id, name |-> name]

\* {"role": "system", "content": self.system_prompt}  (chat.py:234, 244)
SystemMsg == Message("system", "system_prompt", <<>>, NoId, NoName)

\* {"role": "user", "content": user_query}  (chat.py:281, 289)
UserMsg(q) == Message("user", q, <<>>, NoId, NoName)

\* res['choices'][0]['message'] of a completion
AssistantMsg(content, tool_calls) ==
    Message("assistant", content, tool_calls, NoId, NoName)

\* {"role": "tool", "tool_call_id": .., "name": .., "content": ..}
ToolMsg(tool_call_id, name, content) ==
    Message("tool", content, <<>>, tool_call_id, name)

NoMsg == Message("none", None, <<>>, NoId, NoName)

\* the replies the LLM backend may give to a completion request
PlainReply == AssistantMsg("answer", <<>>)
EchoReply == AssistantMsg(None, <<ToolCall("tc_1", "echo", "{}")>>)
NoIdReply == AssistantMsg(None, <<ToolCall(NoId, "echo", "{\"text\": \"a\"}")>>)
TwoCallReply ==
    AssistantMsg(None, <<ToolCall("tc_1", "echo", "{}"),
                         ToolCall("tc_2", "bogus", "{}")>>)
BadArgsReply == AssistantMsg(None, <<ToolCall("tc_1", "echo", "{\"text\": ")>>)

LLMReplies == {PlainReply, EchoReply, NoIdReply, TwoCallReply, BadArgsReply}

\* outcome of one completion request: a reply, or an exception
LLMFailure == Message("exception", None, <<>>, NoId, NoName)
LLMOutcomes == LLMReplies \cup {LLMFailure}

\* what initiate_chat / continue_conversation hand back: the completion
\* dict, or (chat.py:317) a str describing the error
Completion(m) == [kind |-> "completion", message |-> m]
ErrorStr == [kind |-> "str", message |-> NoMsg]
NoResponse == [kind |-> "none", message |-> NoMsg]

\* response.get('choices') and ...['message'].get('tool_calls')
\* (chat.py:331, 442); on a str the .get raises AttributeError
HasGet(response) == response.kind = "completion"
HasToolCalls(response) ==
    response.kind = "completion" /\ response.message.tool_calls # <<>>

\* the exceptions an operation can end in: none; the .get on a str
\* (chat.py:331, 442); json.loads (chat.py:342); the exception of
\* completions.create re-raised by continue_conversation (chat.py:417-419);
\* the exception of list_tools re-raised by initialize (chat.py:72-74,
\* 236-238)
NoError == "none"
AttributeError == "AttributeError"
JSONDecodeError == "JSONDecodeError"
BackendError == "BackendError"
ListingError == "ListingError"

VARIABLES
    \* ChatClient fields (chat.py:175, 195, 196)
    auth_token, available_tools, conversation_history,
    \* the running operation: its name, its position, its arguments and locals
    op, pc, user_query, use_history, max_turns, turn_count, response,
    idx, results, all_tool_results,
    \* how the last operation ended, and whether chat logged the
    \* maximum-turns warning (chat.py:455-456)
    outcome, warned,
    \* observers.  Of the behaviour: operations started, completion requests
    \* sent, whether reset_conversation ran.  Of the operation that runs or
    \* ran last: its completion requests, the executions of chat's loop
    \* body, the connections opened to the tool service, the history when
    \* it was called, the message list of its latest completion request
    ops, llm_total, reset_done, llm_calls, loop_runs, mcp_calls, h0,
    last_request,
    \* the exception that ended the last operation, and whether a completion
    \* request of the operation that runs or ran last failed
    error, llm_failed,
    \* what the caller holds of the history after the last operation; the
    \* tool-listing requests of the operation that runs or ran last
    handed, list_calls,
    \* the authentication of the request that the latest step sent to the
    \* tool service, if it sent one
    carried,
    \* concurrent callers of initiate_chat on one client: where each one is
    flight,
    \* app_mcp.py: the requests the tool service has answered
    served,
    \* a pure function applied on its own: the rendering of a tool listing
    \* (chat.py), the chunking of a text and the sending of the responses of
    \* one webhook reply (whatsapp_bot.py)
    rendering, formatting, replying,
    \* whatsapp_bot.py: the session store (whatsapp_bot.py:45) and the
    \* webhook tasks with the locals of process_message
    user_sessions, handler,
    \* observers of the bot: webhook requests received; for each message of
    \* conversation_history the request and the phone number it was appended
    \* for; the phone number and the origins of the message list of the
    \* latest completion request
    requests, origin, sent

vars == <<auth_token, available_tools, conversation_history,
          op, pc, user_query, use_history, max_turns, turn_count, response,
          idx, results, all_tool_results, outcome, warned,
          ops, llm_total, reset_done, llm_calls, loop_runs, mcp_calls, h0,
          last_request, error, llm_failed, handed, list_calls, carried,
          flight, served, rendering, formatting, replying,
          user_sessions, handler, requests, origin, sent>>

clientVars == <<auth_token, available_tools, conversation_history>>
localVars == <<user_query, use_history, max_turns, turn_count, response,
               idx, results, all_tool_results>>
\* the caller of a ChatClient that is driven directly
callerVars == <<op, pc, localVars, outcome, warned, ops, llm_total,
                reset_done, llm_calls, loop_runs, mcp_calls, h0,
                last_request, error, llm_failed, handed, list_calls>>
botVars == <<user_sessions, handler, requests, origin, sent>>
\* the parts that run apart from the client: the tool service
pureVars == <<rendering, formatting, replying>>
envVars == <<served, pureVars>>
\* the client and its direct caller
chatVars == <<clientVars, callerVars, carried>>
\* the programs that share one client among tasks: the bot, and concurrent
\* callers of initiate_chat
hostVars == <<botVars, flight, envVars>>

\* the caller holds no history; it holds the list that
\* get_conversation_history copied (chat.py:249); it holds the list object
\* of the client itself, which chat returns (chat.py:462).  mutated: did
\* the caller change the list it holds
NotHanded == [kind |-> "none", value |-> <<>>, mutated |-> FALSE]
HandedCopy(history) == [kind |-> "copy", value |-> history, mutated |-> FALSE]
HandedSelf == [kind |-> "self", value |-> <<>>, mutated |-> FALSE]

\* phone numbers that write to the bot, and its concurrent webhook tasks
Phones == {"A", "B"}
Handlers == {1, 2}

\* user_sessions has no entry for a phone number / the entry made by
\* get_user_session (whatsapp_bot.py:82-87)
NoSession == [present |-> FALSE, messages |-> <<>>, uploaded_file |-> None]
NewSession == [present |-> TRUE, messages |-> <<>>, uploaded_file |-> None]

\* a webhook task that is not handling a request
IdleHandler ==
    [pc |-> "idle", req |-> 0, phone_number |-> None, message_text |-> None,
     response |-> NoResponse, idx |-> 0, tool_results |-> <<>>,
     reply |-> "none", responses |-> <<>>, webhook |-> "none"]

\* the origin of the system message
NoOrigin == [req |-> 0, phone |-> None]

\* no operation has run yet
Idle ==
    /\ op = "none"
    /\ pc = "rest"
    /\ user_query = None
    /\ use_history = TRUE
    /\ max_turns = 0
    /\ turn_count = 0
    /\ response = NoResponse
    /\ idx = 0
    /\ results = <<>>
    /\ all_tool_results = <<>>
    /\ outcome = "none"
    /\ warned = FALSE
    /\ ops = 0
    /\ llm_total = 0
    /\ llm_calls = 0
    /\ loop_runs = 0
    /\ mcp_calls = 0
    /\ h0 = <<>>
    /\ last_request = <<>>
    /\ reset_done = FALSE
    /\ error = NoError
    /\ llm_failed = FALSE
    /\ handed = NotHanded
    /\ list_calls = 0
    /\ carried = NoCall

\* tasks that call initiate_chat on the same client at the same time
Callers == 1..MaxCallers
NoCaller == [pc |-> "idle", user_query |-> None]

\* no listing is being rendered, no text is being chunked
NotRendered == [tools |-> <<>>, schema |-> <<>>, done |-> FALSE]
NotFormatted == [text |-> <<>>, max_length |-> 0, chunks |-> <<>>,
                 done |-> FALSE]
NotReplied == [responses |-> <<>>, failing |-> 0, outbound |-> <<>>,
               done |-> FALSE]
NotApplied ==
    /\ rendering = NotRendered
    /\ formatting = NotFormatted
    /\ replying = NotReplied

\* no bot runs on the client, no concurrent caller
NoBot ==
    /\ served = <<>>
    /\ flight = [c \in Callers |-> NoCaller]
    /\ user_sessions = [p \in Phones |-> NoSession]
    /\ handler = [h \in Handlers |-> IdleHandler]
    /\ requests = 0
    /\ origin = <<>>
    /\ sent = [phone |-> None, origins |-> <<>>]

\* ChatClient.__init__ (chat.py:158-223): no catalog, empty history
Init ==
    /\ auth_token = None
    /\ available_tools = NoTools
    /\ conversation_history = <<>>
    /\ Idle
    /\ NoBot
    /\ NotApplied

(***************************************************************************)
(* Pure parts of the code.                                                 *)
(***************************************************************************)
\* generate_available_tools (chat.py:77-105): one entry per listed tool
generate_available_tools(listing) == Loaded(listing)

\* the tools of a listing as mcp_client.list_tools() returns them: name,
\* description, inputSchema (chat.py:93-96)
ToolDescriptors ==
    [name : {"echo", "llm_chat"}, description : {"", "Echo the text."},
     inputSchema : {"{}", "{\"text\": {\"type\": \"string\"}}"}]

RECURSIVE SeqsUpTo(_, _)
\* the sequences over S of length 0..n
SeqsUpTo(S, n) ==
    IF n = 0
    THEN {<<>>}
    ELSE LET shorter == SeqsUpTo(S, n - 1)
         IN  shorter \cup {Append(q, x) : q \in shorter, x \in S}

Listings == SeqsUpTo(ToolDescriptors, MaxListed)

\* the entry is rendered without the description of the tool
RenderToolBare(tool) ==
    [type |-> "function",
     function |-> [type |-> "function", name |-> tool.name,
                   description |-> "", parameters |-> tool.inputSchema],
     strict |-> TRUE]

\* the entry generate_available_tools appends for one tool (chat.py:92-97)
RenderTool(tool) ==
    [type |-> "function",
     function |-> [type |-> "function", name |-> tool.name,
                   description |-> tool.description,
                   parameters |-> tool.inputSchema],
     strict |-> TRUE]

RECURSIVE RenderFrom(_, _, _)
\* 'for tool in tools: ... available_tools.append(...)' from tool i on
\* (chat.py:89-100)
RenderFrom(tools, i, available) ==
    IF i > Len(tools)
    THEN available
    ELSE RenderFrom(tools, i + 1, Append(available, RenderTool(tools[i])))

\* f"call_{i}" (chat.py:357, 375)
CallIdx(i) ==
    CASE i = 0 -> "call_0"
      [] i = 1 -> "call_1"
      [] OTHER -> "call_n"

\* tool_call.get('id', f"call_{i}")
ToolCallId(tool_call, i) ==
    IF tool_call.id = NoId THEN CallIdx(i) ELSE tool_call.id

\* outcomes of one request to the tool service for a known tool: a result,
\* a result json.dumps cannot serialize, a transport or remote-side error
ToolOutcomes == {"ok", "unserializable", "error"}
\* the same where authentication is looked at: the error that is the
\* service's rejection of the request as unauthorized is told apart
AuthToolOutcomes == ToolOutcomes \cup {"unauthorized"}

\* str(e) of the exceptions a tool call can end in
NotFoundError == "Tool not found on MCP server."
NoneTypeError == "'NoneType' object is not iterable"
RemoteError == "ToolError"
DumpsError == "Object is not JSON serializable"
UnauthorizedError == "401 Unauthorized"

\* json.dumps({"error": str(e)})  (chat.py:377)
ErrorContent(e) ==
    CASE e = NotFoundError -> "{\"error\": \"Tool not found on MCP server.\"}"
      [] e = NoneTypeError -> "{\"error\": \"'NoneType' object is not iterable\"}"
      [] e = RemoteError -> "{\"error\": \"ToolError\"}"
      [] e = UnauthorizedError -> "{\"error\": \"401 Unauthorized\"}"
      [] OTHER -> "{\"error\": \"Object is not JSON serializable\"}"

\* json.dumps(result.model_dump())  (chat.py:359)
ResultContent == "{\"content\": [{\"text\": \"echoed\"}]}"

\* the token is handed to MCPClient whatever it is
AuthAlways(token) == token

\* 'if auth_token: MCPClient(.., auth=auth_token) else: MCPClient(..)'
\* (chat.py:59-65, 135-141): what a request to the tool service carries
Auth(token) == IF Truthy(token) THEN token ELSE NoAuth

\* does the name lookup of call_tool (chat.py:127-128) find the tool
ToolKnown(tools, tool_name) == \E k \in 1..Len(tools) : tools[k] = tool_name

\* call_tool without the name lookup of lines 127-131: every name is
\* forwarded to the tool service
call_tool_unchecked(tool_name, tools_field, out) ==
    IF tools_field.is_none
    THEN [raised |-> TRUE, error |-> NoneTypeError, contacted |-> 0]
    ELSE IF out = "error"
    THEN [raised |-> TRUE, error |-> RemoteError, contacted |-> 1]
    ELSE IF out = "unauthorized"
    THEN [raised |-> TRUE, error |-> UnauthorizedError, contacted |-> 1]
    ELSE [raised |-> FALSE, error |-> None, contacted |-> 1]

\* call_tool (chat.py:108-148).  raised: did it raise; error: str(e);
\* contacted: 1 when an MCPClient connection was opened, else 0
call_tool(tool_name, tools_field, out) ==
    IF tools_field.is_none
    THEN [raised |-> TRUE, error |-> NoneTypeError, contacted |-> 0]
    ELSE IF ~ToolKnown(tools_field.tools, tool_name)
    THEN [raised |-> TRUE, error |-> NotFoundError, contacted |-> 0]
    ELSE IF out = "error"
    THEN [raised |-> TRUE, error |-> RemoteError, contacted |-> 1]
    ELSE IF out = "unauthorized"
    THEN [raised |-> TRUE, error |-> UnauthorizedError, contacted |-> 1]
    ELSE [raised |-> FALSE, error |-> None, contacted |-> 1]

\* the entries appended to results (chat.py:348-352, 366-370)
ResultEntry(tool_name, args) ==
    [tool_name |-> tool_name, args |-> args, key |-> "result",
     value |-> "CallToolResult"]
ErrorEntry(tool_name, args, e) ==
    [tool_name |-> tool_name, args |-> args, key |-> "error", value |-> e]

\* the except branch writes the tool message of the success branch
ExecOneErrorAsResult(tool_call, i, args, tools_field, out) ==
    LET r == call_tool(tool_call.name, tools_field, out)
        id == ToolCallId(tool_call, i)
    IN  IF r.raised
        THEN [entries |-> <<ErrorEntry(tool_call.name, args, r.error)>>,
              msg |-> ToolMsg(id, tool_call.name, ResultContent),
              contacted |-> r.contacted]
        ELSE IF out = "unserializable"
        THEN [entries |-> <<ResultEntry(tool_call.name, args),
                            ErrorEntry(tool_call.name, args, DumpsError)>>,
              msg |-> ToolMsg(id, tool_call.name, ErrorContent(DumpsError)),
              contacted |-> r.contacted]
        ELSE [entries |-> <<ResultEntry(tool_call.name, args)>>,
              msg |-> ToolMsg(id, tool_call.name, ResultContent),
              contacted |-> r.contacted]

\* one iteration of the loop of execute_tool_calls (chat.py:340-378) once
\* the arguments are decoded: the entries added to results, the message
\* added to the history, the connections opened
ExecOne(tool_call, i, args, tools_field, out) ==
    LET r == call_tool(tool_call.name, tools_field, out)
        id == ToolCallId(tool_call, i)
    IN  IF r.raised
        THEN [entries |-> <<ErrorEntry(tool_call.name, args, r.error)>>,
              msg |-> ToolMsg(id, tool_call.name, ErrorContent(r.error)),
              contacted |-> r.contacted]
        ELSE IF out = "unserializable"
        THEN [entries |-> <<ResultEntry(tool_call.name, args),
                            ErrorEntry(tool_call.name, args, DumpsError)>>,
              msg |-> ToolMsg(id, tool_call.name, ErrorContent(DumpsError)),
              contacted |-> r.contacted]
        ELSE [entries |-> <<ResultEntry(tool_call.name, args)>>,
              msg |-> ToolMsg(id, tool_call.name, ResultContent),
              contacted |-> r.contacted]

\* the while condition with <= for <
LoopGuardInclusive(tc, mt) == tc <= mt

\* the while condition of chat (chat.py:440)
LoopGuard(tc, mt) == tc < mt

\* history after 'if user_query: append' (chat.py:280-281)
AppendUser(history, q) ==
    IF Truthy(q) THEN Append(history, UserMsg(q)) ELSE history

\* messages sent by initiate_chat (chat.py:284-290)
FirstMessages(history, q, uh) ==
    IF uh THEN history ELSE <<SystemMsg, UserMsg(q)>>

\* a failed completion request appends a note of the failure
AfterCompletionNoted(history, res) == Append(history, res)

\* history after the completion request: the assistant message is appended
\* inside the try, after the request returned (chat.py:307-308, 409-410)
AfterCompletion(history, res) ==
    IF res = LLMFailure THEN history ELSE Append(history, res)

\* the loop of execute_tool_calls taking the calls last to first
NextCallReversed(tool_calls, i) == tool_calls[Len(tool_calls) - i]

\* 'for i, tool_call in enumerate(tool_calls)' (chat.py:340): the call
\* of iteration i, counted from 0
NextCall(tool_calls, i) == tool_calls[i + 1]

\* all_tool_results.extend(tool_results)  (chat.py:445)
Extend(all_results, tool_results) == all_results \o tool_results

\* reset_conversation leaves the history empty
ResetHistoryEmpty == <<>>

\* the list reset_conversation binds to the history (chat.py:243-245)
ResetHistory == <<SystemMsg>>

\* the lazy discovery of initiate_chat runs before every turn
NeedsDiscoveryAlways(tools_field) == TRUE

\* 'if self.available_tools is None' (chat.py:275)
NeedsDiscovery(tools_field) == tools_field.is_none

\* initialize puts the system message in place of any history
InitHistoryAlways(history) == <<SystemMsg>>

\* history after initialize succeeded (chat.py:232-235)
InitHistory(history) ==
    IF history = <<>> THEN <<SystemMsg>> ELSE history

(***************************************************************************)
(* Operations.  pc = "rest": no operation is running and the caller may    *)
(* start one; op and outcome then describe the operation that ran last.    *)
(***************************************************************************)
\* operation name is entered
Begin(name) ==
    /\ pc = "rest"
    /\ ops' = ops + 1
    /\ op' = name
    /\ h0' = conversation_history
    /\ llm_calls' = 0
    /\ loop_runs' = 0
    /\ mcp_calls' = 0
    /\ last_request' = <<>>
    /\ warned' = FALSE
    /\ idx' = 0
    /\ results' = <<>>
    /\ all_tool_results' = <<>>
    /\ turn_count' = 0
    /\ llm_failed' = FALSE

\* the caller starts operation name, which may send up to budget
\* completion requests
Started(name, budget) ==
    /\ ops < MaxOps
    /\ llm_total + budget <= MaxCompletions
    /\ Begin(name)

\* the locals of initiate_chat and chat, when another operation starts
NoArguments ==
    /\ user_query' = None
    /\ use_history' = TRUE
    /\ max_turns' = 0

\* an operation ends in exception e
Raise(e) ==
    /\ pc' = "rest"
    /\ outcome' = "raised"
    /\ error' = e

\* an operation returns to the caller
Return ==
    /\ pc' = "rest"
    /\ outcome' = "returned"
    /\ error' = NoError

\* an operation goes on
Running == UNCHANGED <<outcome, error>>

\* a discovery that failed leaves an empty catalog behind
DiscoverPartial(listed) ==
    IF listed
    THEN /\ available_tools' = generate_available_tools(RemoteCatalog)
         /\ conversation_history' = InitHistory(conversation_history)
    ELSE /\ available_tools' = Loaded(<<>>)
         /\ UNCHANGED conversation_history

\* discovery and the first system message (chat.py:229-235); listed: did
\* generate_available_tools return
Discover(listed) ==
    IF listed
    THEN /\ available_tools' = generate_available_tools(RemoteCatalog)
         /\ conversation_history' = InitHistory(conversation_history)
    ELSE UNCHANGED <<available_tools, conversation_history>>

\* await client.initialize()  (chat.py:225-238)
Initialize ==
    /\ UNCHANGED hostVars
    /\ handed' = NotHanded
    /\ list_calls' = 1
    /\ carried' = Auth(auth_token)
    /\ Started("initialize", 0)
    /\ NoArguments
    /\ \E listed \in BOOLEAN :
          /\ Discover(listed)
          /\ outcome' = IF listed THEN "returned" ELSE "raised"
          /\ error' = IF listed THEN NoError ELSE ListingError
    /\ UNCHANGED <<auth_token, pc, response, llm_total, reset_done>>

\* client.reset_conversation()  (chat.py:240-245)
ResetConversation ==
    /\ UNCHANGED hostVars
    /\ handed' = NotHanded
    /\ list_calls' = 0
    /\ carried' = NoCall
    /\ Started("reset_conversation", 0)
    /\ NoArguments
    /\ conversation_history' = ResetHistory
    /\ reset_done' = TRUE
    /\ outcome' = "returned"
    /\ error' = NoError
    /\ UNCHANGED <<auth_token, available_tools, pc, response, llm_total>>

\* client.get_conversation_history()  (chat.py:247-249)
GetConversationHistory ==
    /\ UNCHANGED hostVars
    /\ Started("get_conversation_history", 0)
    /\ NoArguments
    /\ handed' = HandedCopy(conversation_history)
    /\ list_calls' = 0
    /\ carried' = NoCall
    /\ outcome' = "returned"
    /\ error' = NoError
    /\ UNCHANGED <<clientVars, pc, response, llm_total, reset_done>>

\* client.set_auth_token(token)  (chat.py:251-259)
SetAuthTokenTo(tokens) ==
    /\ UNCHANGED hostVars
    /\ handed' = NotHanded
    /\ list_calls' = 0
    /\ carried' = NoCall
    /\ Started("set_auth_token", 0)
    /\ NoArguments
    /\ \E token \in tokens : auth_token' = token
    /\ outcome' = "returned"
    /\ error' = NoError
    /\ UNCHANGED <<available_tools, conversation_history, pc, response,
                   llm_total, reset_done>>

SetAuthToken == SetAuthTokenTo(Tokens)

\* await client.initiate_chat(user_query, use_history=..): up to the check
\* of available_tools (chat.py:261-275)
CallInitiateChat ==
    /\ UNCHANGED hostVars
    /\ handed' = NotHanded
    /\ list_calls' = 0
    /\ carried' = NoCall
    /\ Started("initiate_chat", 1)
    /\ pc' = "initiate"
    /\ \E q \in UserQueries, uh \in BOOLEAN :
          /\ user_query' = q
          /\ use_history' = uh
    /\ max_turns' = 0
    /\ outcome' = "none"
    /\ error' = NoError
    /\ UNCHANGED <<clientVars, response, llm_total, reset_done>>

\* await client.chat(user_query, max_turns): up to the check of
\* available_tools inside initiate_chat (chat.py:421-436, 261-275)
CallChat ==
    /\ UNCHANGED hostVars
    /\ handed' = NotHanded
    /\ list_calls' = 0
    /\ carried' = NoCall
    /\ \E q \in UserQueries \ {None}, mt \in 0..MaxTurnsArg :
          /\ Started("chat", mt + 1)
          /\ user_query' = q
          /\ max_turns' = mt
    /\ pc' = "initiate"
    /\ use_history' = TRUE
    /\ outcome' = "none"
    /\ error' = NoError
    /\ UNCHANGED <<clientVars, response, llm_total, reset_done>>

\* the one chat run of a caller that has initialized the client
CallChatOnce ==
    /\ UNCHANGED hostVars
    /\ handed' = NotHanded
    /\ list_calls' = 0
    /\ carried' = NoCall
    /\ ops = 0
    /\ Begin("chat")
    /\ \E q \in UserQueries \ {None}, mt \in 0..MaxRounds :
          /\ user_query' = q
          /\ max_turns' = mt
    /\ pc' = "initiate"
    /\ use_history' = TRUE
    /\ outcome' = "none"
    /\ error' = NoError
    /\ UNCHANGED <<clientVars, response, llm_total, reset_done>>

\* 'await self.initialize()' inside initiate_chat (chat.py:275-277)
LazyInitialize ==
    /\ UNCHANGED <<hostVars, handed>>
    /\ pc = "initiate"
    /\ NeedsDiscovery(available_tools)
    /\ list_calls' = list_calls + 1
    /\ carried' = Auth(auth_token)
    /\ mcp_calls' = mcp_calls + 1
    /\ \E listed \in BOOLEAN :
          /\ Discover(listed)
          /\ IF listed THEN UNCHANGED pc /\ Running ELSE Raise(ListingError)
    /\ UNCHANGED <<auth_token, op, localVars, warned, ops, llm_total,
                   llm_calls, loop_runs, h0, last_request, reset_done,
                   llm_failed>>

\* the rest of initiate_chat: the user message, the completion request,
\* the assistant message (chat.py:279-317); within chat, also lines 437-438
FirstCompletion ==
    /\ UNCHANGED <<hostVars, handed, list_calls>>
    /\ carried' = NoCall
    /\ pc = "initiate"
    /\ ~NeedsDiscovery(available_tools)
    /\ LET history == AppendUser(conversation_history, user_query)
       IN  /\ last_request' = FirstMessages(history, user_query, use_history)
           /\ \E res \in LLMOutcomes :
                 /\ conversation_history' = AfterCompletion(history, res)
                 /\ response' = IF res = LLMFailure
                                 THEN ErrorStr ELSE Completion(res)
                 /\ llm_failed' = (llm_failed \/ res = LLMFailure)
    /\ llm_calls' = llm_calls + 1
    /\ llm_total' = llm_total + 1
    /\ IF op = "chat"
       THEN pc' = "loop" /\ Running
       ELSE Return
    /\ UNCHANGED <<auth_token, available_tools, op, user_query, use_history,
                   max_turns, turn_count, idx, results, all_tool_results,
                   warned, ops, loop_runs, mcp_calls, h0, reset_done>>

\* the loop head of chat, and its return (chat.py:440-463): enter
\* execute_tool_calls (chat.py:329-338), or leave the loop and return
ChatLoop ==
    /\ UNCHANGED <<hostVars, list_calls>>
    /\ carried' = NoCall
    /\ pc = "loop"
    /\ IF LoopGuard(turn_count, max_turns)
       THEN IF ~HasGet(response)
            THEN /\ Raise(AttributeError)
                 /\ UNCHANGED <<idx, results, loop_runs, warned, handed>>
            ELSE IF HasToolCalls(response)
            THEN /\ pc' = "tools"
                 /\ idx' = 0
                 /\ results' = <<>>
                 /\ loop_runs' = loop_runs + 1
                 /\ Running
                 /\ UNCHANGED <<warned, handed>>
            ELSE /\ Return
                 /\ warned' = (turn_count >= max_turns)
                 /\ handed' = HandedSelf
                 /\ UNCHANGED <<idx, results, loop_runs>>
       ELSE /\ Return
            /\ warned' = (turn_count >= max_turns)
            /\ handed' = HandedSelf
            /\ UNCHANGED <<idx, results, loop_runs>>
    /\ UNCHANGED <<clientVars, op, user_query, use_history, max_turns,
                   turn_count, response, all_tool_results, ops, llm_total,
                   llm_calls, mcp_calls, h0, last_request, reset_done,
                   llm_failed>>

\* await client.execute_tool_calls(response), called by the caller with the
\* response it holds or with a completion of its own making: up to the
\* loop (chat.py:319-338)
CallExecuteToolCalls ==
    /\ UNCHANGED hostVars
    /\ handed' = NotHanded
    /\ list_calls' = 0
    /\ carried' = NoCall
    /\ Started("execute_tool_calls", 0)
    /\ NoArguments
    /\ \E resp \in {response, Completion(EchoReply)} :
          /\ resp.kind # "none"
          /\ response' = resp
          /\ IF ~HasGet(resp)
             THEN Raise(AttributeError)
             ELSE IF ~HasToolCalls(resp)
             THEN Return
             ELSE pc' = "tools" /\ outcome' = "none" /\ error' = NoError
    /\ UNCHANGED <<clientVars, llm_total, reset_done>>

\* one iteration of the loop of execute_tool_calls (chat.py:340-378), and
\* after the last one its return (chat.py:380-381, 445)
ToolCallWith(outcomes) ==
    /\ UNCHANGED <<hostVars, handed, list_calls>>
    /\ pc = "tools"
    /\ idx < Len(response.message.tool_calls)
    /\ LET tool_calls == response.message.tool_calls
           tool_call == NextCall(tool_calls, idx)
           tool_args == JsonLoads(tool_call.arguments)
       IN  IF ~tool_args.ok
           THEN /\ Raise(JSONDecodeError)
                /\ carried' = NoCall
                /\ UNCHANGED <<conversation_history, idx, results,
                               all_tool_results, mcp_calls>>
           ELSE \E out \in outcomes :
                  LET e == ExecOne(tool_call, idx, tool_args.value,
                                   available_tools, out)
                  IN  /\ conversation_history' =
                            Append(conversation_history, e.msg)
                      /\ results' = results \o e.entries
                      /\ mcp_calls' = mcp_calls + e.contacted
                      /\ carried' = IF e.contacted = 1
                                    THEN Auth(auth_token) ELSE NoCall
                      /\ idx' = idx + 1
                      /\ IF idx + 1 < Len(tool_calls)
                         THEN /\ Running
                              /\ UNCHANGED <<pc, all_tool_results>>
                         ELSE IF op = "chat"
                         THEN /\ pc' = "continue"
                              /\ all_tool_results' =
                                    Extend(all_tool_results, results')
                              /\ Running
                         ELSE /\ Return
                              /\ UNCHANGED all_tool_results
    /\ UNCHANGED <<auth_token, available_tools, op, user_query, use_history,
                   max_turns, turn_count, response, warned, ops, llm_total,
                   llm_calls, loop_runs, h0, last_request, reset_done,
                   llm_failed>>

ToolCallStep == ToolCallWith(ToolOutcomes)

\* the follow-up request is sent again after a failure
CompletionRetried ==
    UNCHANGED <<pc, outcome, error>>

\* 'except Exception: raise' of continue_conversation, which chat does
\* not catch (chat.py:417-419, 448)
CompletionFailed ==
    Raise(BackendError)

\* the completion request of continue_conversation and the assistant
\* message (chat.py:396-410); res: the reply, or the exception
Continue(res) ==
    /\ last_request' = conversation_history
    /\ llm_calls' = llm_calls + 1
    /\ llm_total' = llm_total + 1
    /\ llm_failed' = (llm_failed \/ res = LLMFailure)
    /\ conversation_history' = AfterCompletion(conversation_history, res)
    /\ response' = IF res = LLMFailure THEN response ELSE Completion(res)

\* 'response = await self.continue_conversation(); turn_count += 1' inside
\* chat (chat.py:448-449)
ChatContinue ==
    /\ UNCHANGED <<hostVars, handed, list_calls>>
    /\ carried' = NoCall
    /\ pc = "continue"
    /\ \E res \in LLMOutcomes :
          /\ Continue(res)
          /\ IF res = LLMFailure
             THEN CompletionFailed /\ UNCHANGED turn_count
             ELSE /\ pc' = "loop"
                  /\ turn_count' = turn_count + 1
                  /\ Running
    /\ UNCHANGED <<auth_token, available_tools, op, user_query, use_history,
                   max_turns, idx, results, all_tool_results, warned, ops,
                   loop_runs, mcp_calls, h0, reset_done>>

\* await client.continue_conversation(), called by the caller
\* (chat.py:383-419)
ContinueConversation ==
    /\ UNCHANGED hostVars
    /\ handed' = NotHanded
    /\ list_calls' = 0
    /\ carried' = NoCall
    /\ pc = "rest"
    /\ ops < MaxOps
    /\ llm_total < MaxCompletions
    /\ ops' = ops + 1
    /\ op' = "continue_conversation"
    /\ h0' = conversation_history
    /\ NoArguments
    /\ \E res \in LLMOutcomes :
          /\ last_request' = conversation_history
          /\ llm_calls' = 1
          /\ llm_total' = llm_total + 1
          /\ llm_failed' = (res = LLMFailure)
          /\ conversation_history' =
                AfterCompletion(conversation_history, res)
          /\ response' = IF res = LLMFailure THEN response
                                             ELSE Completion(res)
          /\ outcome' = IF res = LLMFailure THEN "raised" ELSE "returned"
          /\ error' = IF res = LLMFailure THEN BackendError ELSE NoError
    /\ loop_runs' = 0
    /\ mcp_calls' = 0
    /\ warned' = FALSE
    /\ idx' = 0
    /\ results' = <<>>
    /\ all_tool_results' = <<>>
    /\ turn_count' = 0
    /\ UNCHANGED <<auth_token, available_tools, pc, reset_done>>

\* the steps of a running operation
Step ==
    \/ LazyInitialize
    \/ FirstCompletion
    \/ ChatLoop
    \/ ToolCallStep
    \/ ChatContinue

Next ==
    \/ Initialize
    \/ ResetConversation
    \/ GetConversationHistory
    \/ SetAuthToken
    \/ CallInitiateChat
    \/ CallChat
    \/ CallExecuteToolCalls
    \/ ContinueConversation
    \/ LazyInitialize
    \/ FirstCompletion
    \/ ChatLoop
    \/ ToolCallStep
    \/ ChatContinue

Spec == Init /\ [][Next]_vars

\* a caller that initializes the client, resets the conversation and runs
\* chat
ChatNext ==
    \/ Initialize
    \/ ResetConversation
    \/ CallChat
    \/ LazyInitialize
    \/ FirstCompletion
    \/ ChatLoop
    \/ ToolCallStep
    \/ ChatContinue

\* a running operation is resumed by the event loop whenever a step of it
\* can be taken: every call to the LLM backend or the tool service returns
\* or fails
ChatSpec == Init /\ [][ChatNext]_vars /\ WF_vars(Step)

\* the client after 'await client.initialize()' returned (chat.py:225-235,
\* test_mcp_client_auth.py:30-32)
InitLoaded ==
    /\ auth_token = None
    /\ available_tools = generate_available_tools(RemoteCatalog)
    /\ conversation_history = <<SystemMsg>>
    /\ Idle
    /\ NoBot
    /\ NotApplied

\* a caller that runs chat once on an initialized client
RoundsNext ==
    \/ CallChatOnce
    \/ FirstCompletion
    \/ ChatLoop
    \/ ToolCallStep
    \/ ChatContinue

RoundsSpec == InitLoaded /\ [][RoundsNext]_vars

\* a client constructed with or without a token (chat.py:158-175)
AuthInit ==
    /\ auth_token \in {None, "", "t1"}
    /\ available_tools = NoTools
    /\ conversation_history = <<>>
    /\ Idle
    /\ NoBot
    /\ NotApplied

\* a caller that changes the token between discoveries, turns and tool
\* calls, with a tool service that may reject a request as unauthorized
AuthNext ==
    \/ SetAuthTokenTo(AuthTokens)
    \/ Initialize
    \/ CallInitiateChat
    \/ LazyInitialize
    \/ FirstCompletion
    \/ CallExecuteToolCalls
    \/ ToolCallWith(AuthToolOutcomes)

AuthSpec == AuthInit /\ [][AuthNext]_vars

\* what a caller can do to a list it holds: add an element, remove the last
\* one, replace the first one
ListMutations(list) ==
    {Append(list, UserMsg("use echo"))}
        \cup (IF Len(list) > 0
              THEN {SubSeq(list, 1, Len(list) - 1),
                    [list EXCEPT ![1] = UserMsg("use echo")]}
              ELSE {})

\* the caller changes the list that the last operation handed to it: the
\* list of get_conversation_history is a copy (chat.py:249), the
\* 'conversation_history' of chat's return value is the list object of the
\* client itself (chat.py:462)
CallerMutates ==
    /\ UNCHANGED hostVars
    /\ pc = "rest"
    /\ handed.kind # "none"
    /\ ~handed.mutated
    /\ carried' = NoCall
    /\ IF handed.kind = "copy"
       THEN /\ \E list \in ListMutations(handed.value) :
                  handed' = [handed EXCEPT !.value = list, !.mutated = TRUE]
            /\ UNCHANGED clientVars
       ELSE /\ \E list \in ListMutations(conversation_history) :
                  conversation_history' = list
            /\ handed' = [handed EXCEPT !.mutated = TRUE]
            /\ UNCHANGED <<auth_token, available_tools>>
    /\ UNCHANGED <<op, pc, localVars, outcome, warned, ops, llm_total,
                   reset_done, llm_calls, loop_runs, mcp_calls, h0,
                   last_request, error, llm_failed, list_calls>>

\* a caller that runs chat once on an initialized client, asks for the
\* history, and changes the lists it was handed
CopyNext ==
    \/ CallChatOnce
    \/ FirstCompletion
    \/ ChatLoop
    \/ ToolCallStep
    \/ ChatContinue
    \/ GetConversationHistory
    \/ CallerMutates

CopySpec == InitLoaded /\ [][CopyNext]_vars

\* the rest of initiate_chat once the catalog is there: the user message
\* is appended, the completion request is made (a blocking call, no other
\* task runs), the assistant message is appended (chat.py:279-317)
FlightCompletion(c, history, q) ==
    /\ \E res \in LLMOutcomes :
          conversation_history' = AfterCompletion(AppendUser(history, q), res)
    /\ flight' = [flight EXCEPT ![c] = [pc |-> "done", user_query |-> q]]

\* a task calls initiate_chat (chat.py:261-317) and runs to its first
\* await that reaches the network: 'await self.initialize()' when the
\* catalog is None (chat.py:275-277, 229, 61-65), else to its return
FlightCall(c) ==
    /\ flight[c].pc = "idle"
    /\ \E q \in UserQueries \ {None} :
          IF NeedsDiscovery(available_tools)
          THEN /\ flight' = [flight EXCEPT ![c] =
                                [pc |-> "listing", user_query |-> q]]
               /\ carried' = Auth(auth_token)
               /\ UNCHANGED <<available_tools, conversation_history>>
          ELSE /\ FlightCompletion(c, conversation_history, q)
               /\ carried' = NoCall
               /\ UNCHANGED available_tools
    /\ UNCHANGED <<auth_token, callerVars, botVars, envVars>>

\* the listing request of a task returns or fails; initialize stores the
\* catalog and the task runs on to the return of initiate_chat, or the
\* exception leaves initiate_chat (chat.py:229-238, 277-317)
FlightListed(c) ==
    /\ flight[c].pc = "listing"
    /\ carried' = NoCall
    /\ \E listed \in BOOLEAN :
          IF listed
          THEN /\ available_tools' = generate_available_tools(RemoteCatalog)
               /\ FlightCompletion(c, InitHistory(conversation_history),
                                   flight[c].user_query)
          ELSE /\ flight' = [flight EXCEPT ![c].pc = "raised"]
               /\ UNCHANGED <<available_tools, conversation_history>>
    /\ UNCHANGED <<auth_token, callerVars, botVars, envVars>>

\* tool-listing requests that are in flight
InFlight == {c \in Callers : flight[c].pc = "listing"}

FlightNext == \E c \in Callers : FlightCall(c) \/ FlightListed(c)

\* concurrent calls of initiate_chat on a client right after construction
FlightSpec == Init /\ [][FlightNext]_vars

\* a listing the tool service returned (chat.py:88)
RenderInit ==
    /\ auth_token = None
    /\ available_tools = NoTools
    /\ conversation_history = <<>>
    /\ Idle
    /\ NoBot
    /\ formatting = NotFormatted
    /\ replying = NotReplied
    /\ \E tools \in Listings : rendering = [NotRendered EXCEPT !.tools = tools]

\* generate_available_tools after the listing returned (chat.py:89-102)
Render ==
    /\ ~rendering.done
    /\ rendering' = [rendering EXCEPT
                        !.schema = RenderFrom(rendering.tools, 1, <<>>),
                        !.done = TRUE]
    /\ UNCHANGED <<chatVars, botVars, flight, served, formatting, replying>>

RenderSpec == RenderInit /\ [][Render]_vars

(***************************************************************************)
(* format_response_for_whatsapp (src/src/whatsapp_bot.py:119-168).  A text *)
(* is the sequence of its characters.                                      *)
(***************************************************************************)
\* a letter, the full stop, the space, the newline
Chars == {"a", ".", " ", "\n"}

RECURSIVE SplitFrom(_, _, _, _, _)
\* text.split(sep) of Python from position i on: cur is the piece being
\* read, pieces the pieces cut off so far
SplitFrom(text, sep, i, cur, pieces) ==
    IF i > Len(text)
    THEN Append(pieces, cur)
    ELSE IF /\ i + Len(sep) - 1 <= Len(text)
            /\ SubSeq(text, i, i + Len(sep) - 1) = sep
    THEN SplitFrom(text, sep, i + Len(sep), <<>>, Append(pieces, cur))
    ELSE SplitFrom(text, sep, i + 1, Append(cur, text[i]), pieces)

\* text.strip() of Python: whitespace removed at both ends
Strip(text) ==
    LET kept == {i \in 1..Len(text) : text[i] \notin {" ", "\n"}}
    IN  IF kept = {}
        THEN <<>>
        ELSE SubSeq(text,
                    CHOOSE i \in kept : \A j \in kept : i <= j,
                    CHOOSE i \in kept : \A j \in kept : i >= j)

RECURSIVE PackFrom(_, _, _, _, _, _)
\* the loop over the paragraphs (whatsapp_bot.py:139-148) and the loop
\* over the sentences of a chunk (whatsapp_bot.py:157-166), which differ in
\* the suffix only: piece i is added to current when it fits, else current
\* is stripped and put out and piece i starts the next one
PackFrom(pieces, suffix, max_length, i, current, out) ==
    IF i > Len(pieces)
    THEN IF current # <<>> THEN Append(out, Strip(current)) ELSE out
    ELSE IF Len(current) + Len(pieces[i]) + 2 <= max_length
    THEN PackFrom(pieces, suffix, max_length, i + 1,
                  current \o pieces[i] \o suffix, out)
    ELSE PackFrom(pieces, suffix, max_length, i + 1, pieces[i] \o suffix,
                  IF current # <<>> THEN Append(out, Strip(current)) ELSE out)

RECURSIVE FinalFrom(_, _, _, _)
\* 'for chunk in chunks' (whatsapp_bot.py:151-166): a chunk that is too
\* long is split by sentences
FinalFrom(chunks, max_length, i, final_chunks) ==
    IF i > Len(chunks)
    THEN final_chunks
    ELSE IF Len(chunks[i]) <= max_length
    THEN FinalFrom(chunks, max_length, i + 1, Append(final_chunks, chunks[i]))
    ELSE FinalFrom(chunks, max_length, i + 1,
                   PackFrom(SplitFrom(chunks[i], <<".", " ">>, 1, <<>>, <<>>),
                            <<".", " ">>, max_length, 1, <<>>, final_chunks))

\* format_response_for_whatsapp(text, max_length)  (whatsapp_bot.py:119-168)
format_response_for_whatsapp(text, max_length) ==
    IF Len(text) <= max_length
    THEN <<text>>
    ELSE FinalFrom(PackFrom(SplitFrom(text, <<"\n", "\n">>, 1, <<>>, <<>>),
                            <<"\n", "\n">>, max_length, 1, <<>>, <<>>),
                   max_length, 1, <<>>)

\* a text and a max_length handed to the function
FormatInit ==
    /\ auth_token = None
    /\ available_tools = NoTools
    /\ conversation_history = <<>>
    /\ Idle
    /\ NoBot
    /\ rendering = NotRendered
    /\ replying = NotReplied
    /\ \E text \in SeqsUpTo(Chars, MaxText), max_length \in 1..MaxLength :
          formatting = [NotFormatted EXCEPT !.text = text,
                                            !.max_length = max_length]

\* the function is applied
Format ==
    /\ ~formatting.done
    /\ formatting' =
          [formatting EXCEPT
              !.chunks = format_response_for_whatsapp(formatting.text,
                                                      formatting.max_length),
              !.done = TRUE]
    /\ UNCHANGED <<chatVars, botVars, flight, served, rendering, replying>>

FormatSpec == FormatInit /\ [][Format]_vars

(***************************************************************************)
(* webhook after process_message returned (src/src/whatsapp_bot.py:        *)
(* 304-322): what leaves the bot for the user, in the order of the code.   *)
(***************************************************************************)
\* the chunks of a reply
ChunkTexts == {"c1", "c2", "c3"}

\* the sends that raise: none (0), or the send of responses[k], which is
\* only called for responses[1:] (whatsapp_bot.py:312-314)
Failings(responses) == {0} \cup (2..Len(responses))

\* a message handed to the messaging API by send_whatsapp_message
\* (whatsapp_bot.py:109), and the TwiML body the webhook returns
ApiSend(chunk) == [via |-> "api", chunk |-> chunk]
TwiML(chunk) == [via |-> "twiml", chunk |-> chunk]

\* the messages that leave the webhook, in the order in which the code
\* hands them over: send_whatsapp_message for responses[1:] in list order
\* up to the send that raises (whatsapp_bot.py:311-314), then the return of
\* the TwiML response, which carries responses[0] (whatsapp_bot.py:306-308,
\* 316) or, from the except branch, the error text (whatsapp_bot.py:318-322)
WebhookSends(responses, failing) ==
    LET last == IF failing = 0 THEN Len(responses) ELSE failing - 1
        sends == [k \in 1..(last - 1) |-> ApiSend(responses[k + 1])]
    IN  sends \o <<IF failing # 0
                   THEN TwiML("error")
                   ELSE IF responses # <<>>
                   THEN TwiML(responses[1])
                   ELSE TwiML("empty")>>

\* process_message returned a list of responses to the webhook
ReplyInit ==
    /\ auth_token = None
    /\ available_tools = NoTools
    /\ conversation_history = <<>>
    /\ Idle
    /\ NoBot
    /\ rendering = NotRendered
    /\ formatting = NotFormatted
    /\ \E responses \in SeqsUpTo(ChunkTexts, MaxChunks) :
          replying = [NotReplied EXCEPT !.responses = responses]

\* the webhook sends the responses and returns
Reply ==
    /\ ~replying.done
    /\ \E failing \in Failings(replying.responses) :
          replying' =
              [replying EXCEPT
                  !.failing = failing,
                  !.outbound = WebhookSends(replying.responses, failing),
                  !.done = TRUE]
    /\ UNCHANGED <<chatVars, botVars, flight, served, rendering, formatting>>

ReplySpec == ReplyInit /\ [][Reply]_vars

(***************************************************************************)
(* The tool service (src/src/app_mcp.py).                                  *)
(***************************************************************************)
\* what a client asks of the service: the two MCP methods the ChatClient
\* uses, and the health check
Methods == {"tools/list", "tools/call", "health"}
\* the Authorization header of a request: absent, a bearer token that is
\* not valid, a valid one
Credentials == {NoAuth, "invalid.token.here", "valid"}

\* the answer of the server object of app_mcp.py: FastMCP(name) is built
\* without an auth provider and serves the three @mcp.tool functions
\* (app_mcp.py:39-40, 116, 145, 190, 217-218): an MCP request is served
\* whatever its Authorization header; no route but the MCP one is defined.
\* acted: did the service list or invoke tools
Answer(method, credential) ==
    IF method = "health"
    THEN [status |-> 404, acted |-> FALSE]
    ELSE [status |-> 200, acted |-> TRUE]

\* the service answers one request
Serve ==
    /\ Len(served) < MaxServed
    /\ \E method \in Methods, credential \in Credentials :
          served' = Append(served,
                           [method |-> method, credential |-> credential,
                            answer |-> Answer(method, credential)])
    /\ UNCHANGED <<chatVars, botVars, flight, pureVars>>

ServerSpec == Init /\ [][Serve]_vars

(***************************************************************************)
(* The WhatsApp bot (src/src/whatsapp_bot.py).                             *)
(***************************************************************************)
\* message texts: a help command, a clear command, a question
\* (whatsapp_bot.py:195, 213)
\* no text is a help command: the branch of the help text is never taken
HelpCommandsNone == {}

\* the texts answered with the help text (whatsapp_bot.py:195)
HelpCommands == {"help"}
\* the texts that clear the session (whatsapp_bot.py:213)
ClearCommands == {"/clear"}
Texts == {"help", "/clear", "use echo"}

\* MediaUrl0 of the webhook form: absent, or the URL of an upload
MediaUrls == {None, "media_1"}

\* the query sent to the chat client (whatsapp_bot.py:221-226)
Query(message_text, uploaded_file) ==
    IF uploaded_file = None
    THEN message_text
    ELSE "use echo [The user has provided a file at: media_1]"

\* get_user_session without the membership test: a new session for every
\* request
get_user_session_fresh(sessions, phone_number) == NewSession

\* get_user_session (whatsapp_bot.py:80-89)
get_user_session(sessions, phone_number) ==
    IF sessions[phone_number].present
    THEN sessions[phone_number]
    ELSE NewSession

\* session["messages"].append of the user text and of the assistant
\* content (whatsapp_bot.py:270-271)
Stored(session, message_text, assistant_message) ==
    [session EXCEPT !.messages =
        @ \o <<[role |-> "user", content |-> message_text],
               [role |-> "assistant", content |-> assistant_message]>>]

\* execute_tool_calls from iteration i up to the next await that reaches
\* the tool service (the call of a known tool, chat.py:133-145), the end
\* of the loop or an exception of json.loads (chat.py:340-381); a call of
\* an unknown tool is answered without an await (chat.py:127-131)
RECURSIVE RunToAwait(_, _, _, _, _)
RunToAwait(history, tool_results, tool_calls, i, tools_field) ==
    IF i >= Len(tool_calls)
    THEN [status |-> "done", history |-> history,
          tool_results |-> tool_results, idx |-> i]
    ELSE LET tool_call == NextCall(tool_calls, i)
             tool_args == JsonLoads(tool_call.arguments)
         IN  IF ~tool_args.ok
             THEN [status |-> "raised", history |-> history,
                   tool_results |-> tool_results, idx |-> i]
             ELSE IF /\ ~tools_field.is_none
                     /\ ToolKnown(tools_field.tools, tool_call.name)
             THEN [status |-> "await", history |-> history,
                   tool_results |-> tool_results, idx |-> i]
             ELSE LET e == ExecOne(tool_call, i, tool_args.value,
                                   tools_field, "ok")
                  IN  RunToAwait(Append(history, e.msg),
                                 tool_results \o e.entries, tool_calls,
                                 i + 1, tools_field)

\* the list process_message returns after the tool calls ran
\* (whatsapp_bot.py:241-267): the assistant text if there is one (the
\* texts of the model are below max_length: one chunk, whatsapp_bot.py
\* 131-132), then a header and one message per entry of tool_results
Responses(assistant_message, tool_results) ==
    (IF Truthy(assistant_message) THEN <<"assistant">> ELSE <<>>)
        \o (IF tool_results = <<>>
            THEN <<>>
            ELSE <<"header">>
                     \o [k \in 1..Len(tool_results) |->
                            IF tool_results[k].key = "error"
                            THEN "tool_error" ELSE "tool_result"])

\* the except branch of process_message: one error message
\* (whatsapp_bot.py:276-278)
ErrorResponses == <<"error">>

\* does every send_whatsapp_message of the webhook return: only called for
\* responses[1:] (whatsapp_bot.py:312-314)
SendOutcomes(responses) == IF Len(responses) > 1 THEN BOOLEAN ELSE {TRUE}

\* an exception of send_whatsapp_message leaves the webhook
WebhookUncaught(responses, send_ok) ==
    IF ~send_ok
    THEN "crashed"
    ELSE IF responses # <<>> THEN "twiml_first" ELSE "twiml_empty"

\* what the webhook returns once process_message returned
\* (whatsapp_bot.py:304-322): TwiML with responses[0], empty TwiML, or,
\* from the except branch, TwiML with the error text
Webhook(responses, send_ok) ==
    IF ~send_ok
    THEN "twiml_error"
    ELSE IF responses # <<>> THEN "twiml_first" ELSE "twiml_empty"

\* the webhook task after process_message returned and the webhook
\* answered
Answered(hd, reply, responses, send_ok) ==
    [hd EXCEPT !.pc = "idle", !.reply = reply, !.responses = responses,
               !.webhook = Webhook(responses, send_ok)]

\* n copies of the origin of request req of phone_number
Origins(n, req, phone_number) ==
    [k \in 1..n |-> [req |-> req, phone |-> phone_number]]

\* process_message after execute_tool_calls went on to run (whatsapp_bot.py
\* 239-278): suspended in the next tool call, returned with the responses,
\* or returned from the except branch
AfterTools(h, run, hd, session) ==
    /\ conversation_history' = run.history
    /\ carried' = IF run.status = "await" THEN Auth(auth_token) ELSE NoCall
    /\ origin' = origin \o Origins(Len(run.history)
                                      - Len(conversation_history),
                                    hd.req, hd.phone_number)
    /\ CASE run.status = "await" ->
              /\ handler' = [handler EXCEPT ![h] =
                    [hd EXCEPT !.pc = "await", !.idx = run.idx,
                               !.tool_results = run.tool_results]]
              /\ user_sessions' =
                    [user_sessions EXCEPT ![hd.phone_number] = session]
         [] run.status = "done" ->
              /\ LET responses == Responses(hd.response.message.content,
                                            run.tool_results)
                 IN  \E send_ok \in SendOutcomes(responses) :
                        handler' = [handler EXCEPT ![h] =
                           Answered([hd EXCEPT !.idx = run.idx,
                                       !.tool_results = run.tool_results],
                                    "answer", responses, send_ok)]
              /\ user_sessions' =
                    [user_sessions EXCEPT ![hd.phone_number] =
                        Stored(session, hd.message_text,
                               hd.response.message.content)]
         [] OTHER ->
              /\ handler' = [handler EXCEPT ![h] =
                    Answered([hd EXCEPT !.idx = run.idx,
                                !.tool_results = run.tool_results],
                             "error", ErrorResponses, TRUE)]
              /\ user_sessions' =
                    [user_sessions EXCEPT ![hd.phone_number] = session]

\* a webhook task receives a message and runs process_message up to its
\* first await that reaches the network, or to its return
\* (whatsapp_bot.py:171-278, 281-303).  initiate_chat is awaited without
\* giving up the loop: the catalog is loaded and the completion request is
\* a blocking call (chat.py:275, 295)
Receive(h, phone_number, message_text, media_url) ==
    /\ handler[h].pc = "idle"
    /\ requests' = requests + 1
    /\ LET s0 == get_user_session(user_sessions, phone_number)
           session == IF media_url # None
                      THEN [s0 EXCEPT !.uploaded_file = media_url]
                      ELSE s0
           hd == [IdleHandler EXCEPT !.req = requests + 1,
                                     !.phone_number = phone_number,
                                     !.message_text = message_text]
       IN  IF message_text \in HelpCommands
           THEN /\ handler' = [handler EXCEPT ![h] =
                      Answered(hd, "help", <<"help">>, TRUE)]
                /\ user_sessions' =
                      [user_sessions EXCEPT ![phone_number] = session]
                /\ UNCHANGED <<conversation_history, origin, sent>>
                /\ carried' = NoCall
           ELSE IF message_text \in ClearCommands
           THEN /\ handler' = [handler EXCEPT ![h] =
                      Answered(hd, "cleared", <<"cleared">>, TRUE)]
                /\ user_sessions' =
                      [user_sessions EXCEPT ![phone_number] =
                          [session EXCEPT !.messages = <<>>,
                                          !.uploaded_file = None]]
                /\ UNCHANGED <<conversation_history, origin, sent>>
                /\ carried' = NoCall
           ELSE LET query == Query(message_text, session.uploaded_file)
                    history == AppendUser(conversation_history, query)
                    asked == origin \o Origins(Len(history)
                                                 - Len(conversation_history),
                                               requests + 1, phone_number)
                IN  /\ sent' = [phone |-> phone_number,
                                 origins |-> asked]
                    /\ \E res \in LLMOutcomes :
                          IF res = LLMFailure
                          THEN /\ conversation_history' = history
                               /\ origin' = asked
                               /\ carried' = NoCall
                               /\ handler' = [handler EXCEPT ![h] =
                                     Answered([hd EXCEPT
                                                 !.response = ErrorStr],
                                              "error", ErrorResponses,
                                              TRUE)]
                               /\ user_sessions' =
                                     [user_sessions EXCEPT
                                         ![phone_number] = session]
                          ELSE LET run == RunToAwait(
                                         AfterCompletion(history, res),
                                         <<>>, res.tool_calls, 0,
                                         available_tools)
                               IN  AfterTools(h, run,
                                      [hd EXCEPT !.response =
                                                    Completion(res)],
                                      session)
    /\ UNCHANGED <<auth_token, available_tools, callerVars, flight, envVars>>

\* a request of any phone number arrives and is handled by a new task
\* (the first free one: which task it is makes no difference)
ProcessMessage(h) ==
    /\ requests < MaxRequests
    /\ \A g \in Handlers : g < h => handler[g].pc # "idle"
    /\ \E phone_number \in Phones, message_text \in Texts,
          media_url \in MediaUrls :
          Receive(h, phone_number, message_text, media_url)

\* the requests of one user, one after the other
UserMessage ==
    /\ requests < MaxUserRequests
    /\ \E message_text \in Texts, media_url \in MediaUrls :
          Receive(1, "A", message_text, media_url)

\* the tool service answers the call a webhook task is suspended in; the
\* task appends the tool message and runs on (chat.py:346-378,
\* whatsapp_bot.py:239-278)
ResumeToolCall(h) ==
    /\ handler[h].pc = "await"
    /\ \E out \in ToolOutcomes :
          LET hd == handler[h]
              tool_calls == hd.response.message.tool_calls
              tool_call == NextCall(tool_calls, hd.idx)
              e == ExecOne(tool_call, hd.idx,
                           JsonLoads(tool_call.arguments).value,
                           available_tools, out)
              run == RunToAwait(Append(conversation_history, e.msg),
                                hd.tool_results \o e.entries, tool_calls,
                                hd.idx + 1, available_tools)
          IN  AfterTools(h, run, hd, user_sessions[hd.phone_number])
    /\ UNCHANGED <<auth_token, available_tools, callerVars, requests, sent,
                   flight, envVars>>

\* the client after lifespan ran initialize_chat_client
\* (whatsapp_bot.py:48-76), no session, no request
BotInit ==
    /\ auth_token = None
    /\ available_tools = generate_available_tools(RemoteCatalog)
    /\ conversation_history = <<SystemMsg>>
    /\ Idle
    /\ user_sessions = [p \in Phones |-> NoSession]
    /\ handler = [h \in Handlers |-> IdleHandler]
    /\ requests = 0
    /\ origin = <<NoOrigin>>
    /\ sent = [phone |-> None, origins |-> <<>>]
    /\ flight = [c \in Callers |-> NoCaller]
    /\ served = <<>>
    /\ NotApplied

BotNext ==
    \/ \E h \in Handlers : ProcessMessage(h)
    \/ \E h \in Handlers : ResumeToolCall(h)

BotSpec == BotInit /\ [][BotNext]_vars

UserNext ==
    \/ UserMessage
    \/ ResumeToolCall(1)

\* the bot with one user who waits for each reply before writing again
UserSpec == BotInit /\ [][UserNext]_vars

TypeOK ==
    /\ pc \in {"rest", "initiate", "loop", "tools", "continue"}
    /\ outcome \in {"none", "returned", "raised"}
    /\ ops \in 0..MaxOps
    /\ llm_total >= llm_calls
    /\ turn_count \in 0..max_turns
    /\ warned \in BOOLEAN
    /\ error \in {NoError, AttributeError, JSONDecodeError, BackendError,
                   ListingError}
    /\ llm_failed \in BOOLEAN
    /\ (outcome = "raised") <=> (error # NoError)
    /\ handed.kind \in {"none", "copy", "self"}
    /\ \A c \in Callers :
          flight[c].pc \in {"idle", "listing", "done", "raised"}
    /\ list_calls \in 0..1
    /\ carried \in {NoCall, NoAuth} \cup AuthTokens
    /\ requests \in 0..(MaxRequests + MaxUserRequests)
    /\ Len(origin) \in {0, Len(conversation_history)}
    /\ \A h \in Handlers : handler[h].pc \in {"idle", "await"}

(***************************************************************************)
(* Properties.                                                             *)
(***************************************************************************)
\* chat has returned to its caller
ChatReturned == op = "chat" /\ pc = "rest" /\ outcome = "returned"

\* chat is running
ChatRunning == op = "chat" /\ pc # "rest"

\* the messages the operation that runs (or ran last) has appended
Appended ==
    SubSeq(conversation_history, Len(InitHistory(h0)) + 1,
           Len(conversation_history))

\* C1: for every max_turns >= 0, whatever the LLM backend and the tool
\* service answer, a chat run returns or raises, and its loop body (tool
\* calls, then the follow-up completion) is entered at most max_turns times
C1_ChatTerminates ==
    /\ [](op = "chat" => loop_runs <= max_turns)
    /\ (ChatRunning ~>
           (op = "chat" /\ pc = "rest" /\ outcome \in {"returned", "raised"}))

\* a chat run that ran its loop body max_turns >= 1 times and returned
C1_Witness == ChatReturned /\ max_turns >= 1 /\ loop_runs = max_turns

\* C2: chat signals truncation exactly when the turn counter reached
\* max_turns, and never when the last reply carried no tool calls; stated
\* of the runs with max_turns >= 1
C2_TruncationIffBound ==
    (ChatReturned /\ max_turns >= 1) =>
        /\ warned <=> (turn_count >= max_turns)
        /\ (HasGet(response) /\ ~HasToolCalls(response)) => ~warned

\* C3: the turn count chat returns is the number of completion requests
\* of the run
C3_TurnsAreCompletions == ChatReturned => turn_count = llm_calls

\* every reply of the run requested tools
EveryReplyRequestsTools ==
    /\ HasToolCalls(response)
    /\ \A i \in 1..Len(Appended) :
          Appended[i].role = "assistant" => Appended[i].tool_calls # <<>>

\* C4: with max_turns = N >= 1 and an LLM that requests tools in every
\* reply, chat makes exactly N completion requests and signals truncation
C4_ExactlyNCompletions ==
    (ChatReturned /\ max_turns >= 1 /\ EveryReplyRequestsTools) =>
        (llm_calls = max_turns /\ warned)

\* s is a sequence of tool rounds (an assistant message with n >= 1 tool
\* calls, then n tool messages) followed by one assistant message without
\* tool calls
RECURSIVE Rounds(_)
Rounds(s) ==
    /\ s # <<>>
    /\ s[1].role = "assistant"
    /\ LET n == Len(s[1].tool_calls)
       IN  IF n = 0
           THEN Len(s) = 1
           ELSE /\ Len(s) > n
                /\ \A j \in 1..n : s[1 + j].role = "tool"
                /\ Rounds(SubSeq(s, n + 2, Len(s)))

\* C5: from the history [system], a chat run of k < max_turns tool rounds
\* and a final reply without tool calls appends one user message, then per
\* round the assistant message and one tool message per tool call, then
\* the final assistant message: 3 messages in all without a round, 5 with
\* one round of one call
C5_HistoryShape ==
    (ChatReturned /\ h0 = <<SystemMsg>> /\ turn_count < max_turns) =>
        /\ Appended # <<>>
        /\ Appended[1] = UserMsg(user_query)
        /\ Rounds(Tail(Appended))
        /\ turn_count = 0 => Len(conversation_history) = 3
        /\ (turn_count = 1 /\ Len(all_tool_results) = 1)
              => Len(conversation_history) = 5

\* C6: a non-empty history starts with the system message
C6_SystemFirst ==
    conversation_history # <<>> => conversation_history[1].role = "system"

\* the index of the nearest assistant message before position i, or 0
RECURSIVE NearestAssistant(_, _)
NearestAssistant(history, i) ==
    IF i <= 1 THEN 0
    ELSE IF history[i - 1].role = "assistant" THEN i - 1
    ELSE NearestAssistant(history, i - 1)

\* the tool message at position i answers a tool call of the nearest
\* assistant message before it
Answers(history, i) ==
    LET j == NearestAssistant(history, i)
    IN  /\ j > 0
        /\ \E k \in 1..Len(history[j].tool_calls) :
              history[j].tool_calls[k].id = history[i].tool_call_id

\* C7: every tool message carries the id of a tool call of the nearest
\* preceding assistant message; stated of the histories that chat alone
\* has built, on a fresh or a just initialized client
C7_ToolCallIdMatches ==
    (op = "chat" /\ InitHistory(h0) = <<SystemMsg>>) =>
        \A i \in 1..Len(conversation_history) :
            conversation_history[i].role = "tool"
                => Answers(conversation_history, i)

\* C8: once reset_conversation has run, the history is (system,) or
\* starts with (system, user)
C8_ResetThenSystemUser ==
    reset_done =>
        /\ conversation_history # <<>>
        /\ conversation_history[1].role = "system"
        /\ Len(conversation_history) >= 2
              => conversation_history[2].role = "user"

\* C9: the first completion request of a chat run is sent after exactly
\* one user message carrying user_query was appended to the history
C9_UserMessageFirst ==
    (op = "chat" /\ llm_calls = 1) =>
        last_request = Append(InitHistory(h0), UserMsg(user_query))

\* C10: an iteration of execute_tool_calls on a tool call whose name is
\* not in the catalog opens no connection to the tool service, does not
\* raise, and appends the tool message that encodes the not-found error
C10_UnknownToolStaysLocal ==
    [][(/\ pc = "tools"
        /\ ~available_tools.is_none
        /\ idx < Len(response.message.tool_calls)
        /\ JsonLoads(response.message.tool_calls[idx + 1].arguments).ok
        /\ ~ToolKnown(available_tools.tools,
                      response.message.tool_calls[idx + 1].name))
       => LET tool_call == response.message.tool_calls[idx + 1]
          IN  /\ mcp_calls' = mcp_calls
              /\ outcome' # "raised"
              /\ conversation_history' =
                    Append(conversation_history,
                           ToolMsg(ToolCallId(tool_call, idx), tool_call.name,
                                   ErrorContent(NotFoundError)))
              /\ results' # <<>>
              /\ results'[Len(results')].key = "error"
              /\ results'[Len(results')].value = NotFoundError]_vars

\* execute_tool_calls has returned after a call of the known tool echo
\* (one connection) and a call of the unknown tool bogus (recorded as an
\* error)
C10_Witness ==
    /\ pc = "rest"
    /\ outcome = "returned"
    /\ op = "execute_tool_calls"
    /\ mcp_calls = 1
    /\ Len(results) >= 2
    /\ results[Len(results)].value = NotFoundError
    /\ conversation_history # <<>>
    /\ conversation_history[Len(conversation_history)] =
          ToolMsg("tc_2", "bogus", ErrorContent(NotFoundError))

\* the tool call the loop of execute_tool_calls is at
CurrentCall == response.message.tool_calls[idx + 1]

\* the step taken is an iteration of execute_tool_calls inside chat in
\* which the invocation of a known tool failed at the tool service
KnownToolFailedInChat ==
    /\ op = "chat"
    /\ pc = "tools"
    /\ idx < Len(response.message.tool_calls)
    /\ JsonLoads(CurrentCall.arguments).ok
    /\ ToolKnown(available_tools.tools, CurrentCall.name)
    /\ mcp_calls' = mcp_calls + 1
    /\ Len(results') = Len(results) + 1
    /\ results'[Len(results')].key = "error"
    /\ results'[Len(results')].value = RemoteError

\* C11: when the invocation of a known tool fails during chat, chat does
\* not raise, the tool message that encodes the error is appended for that
\* call, the loop goes on to the next call or, after the last call, to the
\* follow-up completion request, as it does after a successful call
C11_ToolErrorFolded ==
    /\ [][KnownToolFailedInChat =>
            /\ outcome' # "raised"
            /\ conversation_history' =
                  Append(conversation_history,
                         ToolMsg(ToolCallId(CurrentCall, idx),
                                 CurrentCall.name,
                                 "{\"error\": \"ToolError\"}"))
            /\ pc' = IF idx + 1 < Len(response.message.tool_calls)
                      THEN "tools" ELSE "continue"]_vars
    /\ [][(op = "chat" /\ pc = "continue") =>
              llm_calls' = llm_calls + 1]_vars

\* chat returned after a tool call failed at the tool service and the
\* follow-up completion request was sent with the error message in it
C11_Witness ==
    /\ ChatReturned
    /\ llm_calls = 2
    /\ all_tool_results # <<>>
    /\ all_tool_results[1].value = RemoteError
    /\ \E k \in 1..Len(last_request) :
          /\ last_request[k].role = "tool"
          /\ last_request[k].content = "{\"error\": \"ToolError\"}"

\* C12: no iteration of execute_tool_calls raises: whatever fails while
\* one tool call is processed, a tool message is appended for the call and
\* the loop goes on to the calls that remain
C12_ToolFailuresBecomeContent ==
    [][(pc = "tools") =>
          /\ outcome' # "raised"
          /\ idx' = idx + 1
          /\ Len(conversation_history') = Len(conversation_history) + 1]_vars

\* C13: execute_tool_calls produces one result entry and one tool message
\* per tool call it has processed, each entry carrying either 'result' or
\* 'error'
C13_OneEntryPerCall ==
    (op \in {"chat", "execute_tool_calls"}) =>
        /\ Len(results) = idx
        /\ \A k \in 1..Len(results) : results[k].key \in {"result", "error"}
        /\ (op = "execute_tool_calls")
              => Len(conversation_history) = Len(h0) + idx

\* a result entry other than the second one json.dumps leaves behind
Recorded(e) == e.value # DumpsError

\* C14: the tool calls of one assistant message are processed one per
\* iteration in the order the LLM listed them, the tool messages stand in
\* the history in that order, each iteration appends its message before the
\* next call is taken, and chat's tool results are the results of the
\* rounds in the order the rounds ran
C14_CallsInOrder ==
    /\ []((pc \in {"tools", "continue"}) =>
            /\ idx <= Len(conversation_history)
            /\ \A k \in 1..idx :
                  LET tc == response.message.tool_calls[k]
                      m == conversation_history[
                              Len(conversation_history) - idx + k]
                  IN  /\ m.role = "tool"
                      /\ m.name = tc.name
                      /\ m.tool_call_id = ToolCallId(tc, k - 1)
            /\ LET r == SelectSeq(results, Recorded)
               IN  /\ Len(r) = idx
                   /\ \A k \in 1..idx :
                         r[k].tool_name = response.message.tool_calls[k].name)
    /\ [][(pc = "tools" /\ pc' # "rest") =>
              /\ idx' = idx + 1
              /\ mcp_calls' <= mcp_calls + 1
              /\ Len(conversation_history') =
                    Len(conversation_history) + 1]_vars
    /\ [][(pc = "tools" /\ pc' = "continue") =>
              all_tool_results' = all_tool_results \o results']_vars
    /\ [][(pc # "tools" /\ pc # "rest") =>
              all_tool_results' = all_tool_results]_vars

\* chat returned after two rounds of tool calls, the first with the two
\* calls tc_1 and tc_2, whose results head the returned tool results
C14_Witness ==
    /\ ChatReturned
    /\ loop_runs = 2
    /\ Len(all_tool_results) >= 3
    /\ all_tool_results[1].tool_name = "echo"
    /\ all_tool_results[1].key = "result"
    /\ all_tool_results[2].tool_name = "bogus"
    /\ Len(conversation_history) >= 5
    /\ conversation_history[4].tool_call_id = "tc_1"
    /\ conversation_history[5].tool_call_id = "tc_2"

\* C15: a chat run in which a completion request failed, the first or a
\* follow-up one, ends in the exception of the LLM backend; stated of the
\* runs with a non-empty user_query and max_turns >= 1
C15_CompletionFailureSurfaced ==
    (/\ op = "chat"
     /\ pc = "rest"
     /\ Truthy(user_query)
     /\ max_turns >= 1
     /\ llm_failed) =>
        (outcome = "raised" /\ error = BackendError)

\* the step taken is a completion request that failed
CompletionFailedNow ==
    /\ llm_total' = llm_total + 1
    /\ IF pc = "initiate" THEN response' = ErrorStr
                          ELSE error' = BackendError

\* C16: a completion request that fails leaves the history as it was when
\* the request was sent: the messages appended before it remain (for the
\* first request of a turn, the user message included) and no assistant
\* message is appended
C16_FailedCompletionKeepsHistory ==
    [][CompletionFailedNow =>
          conversation_history' =
              IF pc = "initiate"
              THEN AppendUser(conversation_history, user_query)
              ELSE conversation_history]_vars

\* chat raised on its follow-up completion request; the user message, the
\* assistant message and the tool message of the turn are in the history
C16_Witness ==
    /\ op = "chat"
    /\ outcome = "raised"
    /\ error = BackendError
    /\ llm_calls = 2
    /\ Len(Appended) >= 3
    /\ Appended[1].role = "user"
    /\ Appended[2].role = "assistant"
    /\ Appended[Len(Appended)].role = "tool"

\* C17: once a completion request of an operation has failed, that
\* operation sends no further completion request
C17_NoRetry ==
    [][(llm_failed /\ ops' = ops) => llm_total' = llm_total]_vars

\* a chat run with max_turns >= 1 whose first completion request failed
\* has ended after that one request
C17_Witness ==
    /\ op = "chat"
    /\ pc = "rest"
    /\ max_turns >= 1
    /\ llm_failed
    /\ llm_calls = 1

\* C20: the first completion request of a chat run that follows an earlier
\* turn (a user message and an assistant message are in the history when
\* the run starts) carries the whole history left by that turn, followed
\* by the new user message
C20_LaterTurnSeesHistory ==
    (/\ op = "chat"
     /\ llm_calls = 1
     /\ \E k \in 1..Len(h0) : h0[k].role = "user"
     /\ \E k \in 1..Len(h0) : h0[k].role = "assistant") =>
        last_request = Append(h0, UserMsg(user_query))

\* C18: in the history of the bot's chat client the messages appended for
\* one request are contiguous: no message of another request of the same
\* phone number stands between two of them
C18_TurnsContiguous ==
    \A i, j, k \in 1..Len(origin) :
        (/\ i < j /\ j < k
         /\ origin[i].req # 0
         /\ origin[i].req = origin[k].req
         /\ origin[j].phone = origin[i].phone)
            => origin[j].req = origin[i].req

\* C19: the message list of a completion request sent for one phone
\* number holds no message appended for another phone number
C19_HistoryPerIdentity ==
    \A k \in 1..Len(sent.origins) :
        sent.origins[k].phone \in {None, sent.phone}

\* s is a prefix of t
IsPrefix(s, t) == Len(s) <= Len(t) /\ SubSeq(t, 1, Len(s)) = s

\* the step taken is the receipt of a webhook request of phone number p
Received(p) ==
    /\ requests' = requests + 1
    /\ \E h \in Handlers : /\ handler'[h].req = requests'
                            /\ handler'[h].phone_number = p

\* the step taken is the receipt of a clear command of phone number p
ReceivedClear(p) ==
    /\ requests' = requests + 1
    /\ \E h \in Handlers : /\ handler'[h].req = requests'
                            /\ handler'[h].phone_number = p
                            /\ handler'[h].reply = "cleared"

\* C21: for every interleaving of the webhook tasks, the session of a
\* phone number is created only by a request of that phone number, a later
\* lookup returns the stored session as it is, a session is never removed
\* or replaced by a new one (its stored messages are kept by every step
\* but a clear command of that phone number)
C21_SessionLookupIdempotent ==
    /\ [](\A p \in Phones :
            user_sessions[p].present =>
                get_user_session(user_sessions, p) = user_sessions[p])
    /\ [][\A p \in Phones :
            /\ user_sessions[p].present => user_sessions'[p].present
            /\ (~user_sessions[p].present /\ user_sessions'[p].present)
                  => Received(p)
            /\ (user_sessions[p].present /\ ~ReceivedClear(p))
                  => IsPrefix(user_sessions[p].messages,
                              user_sessions'[p].messages)]_vars

\* a request of a phone number was answered and stored in the session
\* while an earlier request of the same phone number is suspended in a
\* tool call
C21_Witness ==
    \E g, h \in Handlers :
        /\ handler[g].pc = "await"
        /\ handler[h].pc = "idle"
        /\ handler[h].reply = "answer"
        /\ handler[h].req > handler[g].req
        /\ handler[h].phone_number = handler[g].phone_number
        /\ Len(user_sessions[handler[g].phone_number].messages) = 2

\* a step that is a call of reset_conversation
ResetStep == op' = "reset_conversation" /\ ops' = ops + 1

\* C22: only reset_conversation shortens or rewrites the history: every
\* step of every other operation (initialize, also on a non-empty history,
\* initiate_chat, execute_tool_calls, continue_conversation, chat,
\* set_auth_token, get_conversation_history) leaves the messages that were
\* there as an unchanged prefix of the history
C22_OnlyResetTruncates ==
    [][~ResetStep => IsPrefix(conversation_history, conversation_history')]_vars

\* initialize returned on a history that already held a conversation, and
\* the conversation is still there
C22_Witness ==
    /\ op = "initialize"
    /\ outcome = "returned"
    /\ Len(h0) >= 3
    /\ conversation_history = h0

\* C23: from any state reset_conversation leaves exactly one message, the
\* system prompt, in the history; a second reset in a row changes nothing
\* of the client; the cached tool catalog and the auth token stay as they
\* were
C23_ResetToSystemPrompt ==
    [][ResetStep =>
          /\ conversation_history' = <<SystemMsg>>
          /\ available_tools' = available_tools
          /\ auth_token' = auth_token
          /\ (op = "reset_conversation" /\ pc = "rest")
                 => clientVars' = clientVars]_vars

\* a reset of a client that held a conversation, a loaded catalog and a
\* token
C23_Witness ==
    /\ op = "reset_conversation"
    /\ Len(h0) >= 3
    /\ conversation_history = <<SystemMsg>>
    /\ ~available_tools.is_none
    /\ auth_token # None

\* C24: a history handed to a caller is a defensive copy: when the caller
\* adds, removes or replaces elements of the sequence returned by
\* get_conversation_history, or of the 'conversation_history' returned by
\* chat, the history of the client does not change
C24_HandedHistoryIsCopy ==
    [][(handed'.mutated /\ ~handed.mutated)
          => conversation_history' = conversation_history]_vars

\* a step that is a call of initialize
InitializeStep == op' = "initialize" /\ ops' = ops + 1

\* C25: the tool catalog is discovered once and cached: once a discovery
\* has succeeded, no step of initiate_chat, execute_tool_calls,
\* continue_conversation, chat, reset_conversation or set_auth_token asks
\* the remote service for a tool listing; only an explicit call of
\* initialize discovers again, and the catalog stays loaded
C25_CatalogCached ==
    [][(~available_tools.is_none /\ ~InitializeStep)
          => /\ list_calls' <= list_calls
             /\ available_tools' = available_tools]_vars

\* a chat turn that made a completion request and returned on a catalog
\* that an earlier operation had discovered
C25_Witness ==
    /\ op = "chat"
    /\ outcome = "returned"
    /\ ops >= 2
    /\ llm_calls >= 1
    /\ list_calls = 0
    /\ ~available_tools.is_none

\* a step in which a tool listing failed: in initialize, or in the lazy
\* discovery of initiate_chat
DiscoveryFailedStep ==
    /\ error' = ListingError
    /\ InitializeStep \/ pc = "initiate"

\* C27: a failed discovery is fatal to the turn and leaves no trace: the
\* failure is raised to the caller, the catalog is as it was (in a turn:
\* unset, no partial catalog), no completion request is made, and the
\* history is unchanged (the user message of the failed turn is not
\* appended)
C27_FailedDiscoveryNoTrace ==
    [][DiscoveryFailedStep =>
          /\ outcome' = "raised"
          /\ pc' = "rest"
          /\ available_tools' = available_tools
          /\ conversation_history' = conversation_history
          /\ llm_total' = llm_total
          /\ pc = "initiate" =>
                /\ available_tools'.is_none
                /\ conversation_history' = h0
                /\ llm_calls' = 0]_vars

\* a chat turn with a user message ended in the failure of its discovery
C27_Witness ==
    /\ op = "chat"
    /\ outcome = "raised"
    /\ error = ListingError
    /\ Truthy(user_query)
    /\ available_tools.is_none
    /\ conversation_history = h0
    /\ llm_calls = 0

\* C26: discovery is single-flight: however concurrent initiate_chat calls
\* on a client without a catalog interleave, at most one tool-listing
\* request is in flight at a time
C26_SingleFlight == Cardinality(InFlight) <= 1

\* the last message of the history
LastMessage == conversation_history[Len(conversation_history)]

\* C28: every request that is not a special command is handled by the full
\* turn loop: the tool results are sent back to the LLM in a follow-up
\* completion request before the reply is returned, so a request never
\* ends with tool messages that the LLM has not been called on
C28_RequestRunsFullTurn ==
    (handler[1].pc = "idle" /\ handler[1].reply = "answer")
        => LastMessage.role # "tool"

\* C29: no failure path crashes the request handler: whenever a request
\* has been handled, process_message has returned a list of replies and
\* the webhook has returned TwiML, also when a later message could not be
\* sent; a failed completion request and a failed tool loop give the one
\* error reply, which no reply made of an assistant message contains
C29_NoFailureCrashes ==
    \A h \in Handlers :
        (handler[h].pc = "idle" /\ handler[h].req > 0) =>
            /\ handler[h].webhook \in {"twiml_first", "twiml_empty",
                                       "twiml_error"}
            /\ handler[h].webhook = "twiml_first" => handler[h].responses # <<>>
            /\ handler[h].response = ErrorStr =>
                   /\ handler[h].reply = "error"
                   /\ handler[h].responses = ErrorResponses
            /\ handler[h].reply = "answer" =>
                   \A k \in 1..Len(handler[h].responses) :
                       handler[h].responses[k] # "error"

\* a request whose completion request failed, and a request whose reply
\* could not be sent in full, have both been answered
C29_Witness ==
    \E g, h \in Handlers :
        /\ handler[g].pc = "idle"
        /\ handler[g].response = ErrorStr
        /\ handler[g].webhook = "twiml_first"
        /\ handler[h].pc = "idle"
        /\ handler[h].webhook = "twiml_error"
        /\ \E k \in 1..Len(handler[h].responses) :
              handler[h].responses[k] = "tool_error"

\* C30: after a user cleared the conversation, it starts fresh: the
\* messages sent to the LLM for that user's next message are the system
\* prompt and that new user message only, nothing from before the clear
C30_ClearStartsFresh ==
    [][(/\ handler[1].reply = "cleared"
        /\ handler[1].req = requests
        /\ requests' = requests + 1
        /\ handler'[1].reply \notin {"help", "cleared"})
          => /\ Len(sent'.origins) = 2
             /\ \A k \in 1..Len(sent'.origins) :
                   sent'.origins[k].req \in {0, requests'}]_vars

\* C31: a configured token is attached to every request to the tool
\* service (tool listings and tool invocations): a request carries the
\* token the client holds at that moment, so after set_auth_token(t) it
\* carries t and never an earlier token; without a token (None or the
\* empty string) the request is made without authentication
C31_TokenAttached ==
    carried # NoCall =>
        carried = (IF auth_token = None \/ auth_token = ""
                   THEN NoAuth ELSE auth_token)

\* a tool invocation carried the token t2 that set_auth_token had put in
\* the place of the token the catalog was listed with
C31_Witness ==
    /\ op = "execute_tool_calls"
    /\ ops = 3
    /\ mcp_calls >= 1
    /\ ~available_tools.is_none
    /\ carried = "t2"

\* C32: a rejected, expired or invalid token is surfaced distinctly: when
\* the tool service rejects a tool invocation as unauthorized, the
\* rejection is not folded into the conversation as the content of an
\* ordinary tool message and is not an ordinary error entry of the
\* results; the operation ends in a failure of its own kind
C32_UnauthorizedSurfaced ==
    /\ \A k \in 1..Len(conversation_history) :
          conversation_history[k].content # ErrorContent(UnauthorizedError)
    /\ \A k \in 1..Len(results) : results[k].value # UnauthorizedError

\* C33: the tool service answers 401 to every tool-listing or tool-call
\* request without a bearer token or with an invalid one, and then lists
\* and invokes no tool; it accepts a request with a valid token; the
\* health endpoint answers without authentication
C33_ServiceRequiresToken ==
    \A k \in 1..Len(served) :
        LET r == served[k]
        IN  /\ (r.method # "health" /\ r.credential # "valid")
                   => (r.answer.status = 401 /\ ~r.answer.acted)
            /\ (r.method # "health" /\ r.credential = "valid")
                   => r.answer.status = 200
            /\ r.method = "health" => r.answer.status = 200

C35_ChunksWithinLimit ==
    formatting.done =>
        /\ \A k \in 1..Len(formatting.chunks) :
              /\ Len(formatting.chunks[k]) <= formatting.max_length
              /\ formatting.text # <<>> => formatting.chunks[k] # <<>>
        /\ Len(formatting.text) <= formatting.max_length
               => formatting.chunks = <<formatting.text>>

\* every tool call carried by an assistant message of the list has a tool
\* message later in the list that names it (by the id execute_tool_calls
\* gives the call, chat.py:355-357)
ToolCallsAnswered(messages) ==
    \A k \in 1..Len(messages) :
        \A i \in 1..Len(messages[k].tool_calls) :
            \E j \in (k + 1)..Len(messages) :
                /\ messages[j].role = "tool"
                /\ messages[j].tool_call_id =
                      ToolCallId(messages[k].tool_calls[i], i - 1)

\* C36: at the moment of every LLM completion request issued by a
\* ChatClient, across any sequence of chat, initiate_chat,
\* execute_tool_calls and continue_conversation calls, including a turn that
\* follows a truncated one, every tool call carried by an assistant message
\* in the message list sent has a matching tool message later in that list
C36_SentToolCallsAnswered ==
    ToolCallsAnswered(last_request)

\* the completion request of an initiate_chat(user_query,
\* use_history=False) returns a reply
StatelessCompletionStep ==
    /\ pc = "initiate"
    /\ ~use_history
    /\ llm_total' = llm_total + 1
    /\ response'.kind = "completion"

\* C37: initiate_chat with use_history=False sends the LLM only [system
\* prompt, current user message] and no earlier message, yet still appends
\* the user message and the assistant reply to the stored conversation
\* history
C37_StatelessStillStored ==
    [][StatelessCompletionStep =>
          /\ last_request' = <<SystemMsg, UserMsg(user_query)>>
          /\ conversation_history' =
                conversation_history
                    \o <<UserMsg(user_query), response'.message>>]_vars

\* the step taken is the receipt, by webhook task h, of a message that is
\* a special command
SpecialCommandStep(h) ==
    /\ handler[h].pc = "idle"
    /\ requests' = requests + 1
    /\ handler'[h].req = requests'
    /\ handler'[h].message_text \in {"help", "/clear"}

\* C38: handling a special command in process_message (help/start, or
\* clear/reset) makes no LLM completion call and no tool call and leaves
\* the chat client's conversation history unchanged; help additionally
\* leaves the user's stored session messages unchanged
C38_SpecialCommandsLocal ==
    [][\A h \in Handlers :
          SpecialCommandStep(h) =>
              /\ sent' = sent
              /\ handler'[h].response = NoResponse
              /\ carried' = NoCall
              /\ handler'[h].pc = "idle"
              /\ handler'[h].tool_results = <<>>
              /\ conversation_history' = conversation_history
              /\ origin' = origin
              /\ handler'[h].message_text = "help" =>
                    \A p \in Phones :
                        user_sessions'[p].messages
                            = user_sessions[p].messages]_vars

\* a help command was answered in a session that holds an earlier exchange
C38_Witness ==
    \E h \in Handlers :
        /\ handler[h].pc = "idle"
        /\ handler[h].req = requests
        /\ handler[h].message_text = "help"
        /\ handler[h].reply = "help"
        /\ user_sessions[handler[h].phone_number].messages # <<>>
        /\ Len(conversation_history) > 1

\* C39: for a webhook reply split into several chunks, the chunks reach the
\* user in order: the first chunk, returned as the immediate TwiML
\* response, is delivered before any additional chunk is sent through the
\* messaging API, and the additional chunks are sent in their list order
C39_ChunksInOrder ==
    (replying.done /\ Len(replying.responses) > 1) =>
        /\ replying.outbound[1] = TwiML(replying.responses[1])
        /\ \A k \in 2..Len(replying.responses) :
              /\ k <= Len(replying.outbound)
              /\ replying.outbound[k] = ApiSend(replying.responses[k])

====
